---- MODULE Spec2Model ----
(***************************************************************************)
(* GameEnv (src/src/game_env.py): the step / reset adapter between a       *)
(* control loop and a running flight simulation.                           *)
(*                                                                         *)
(* The environment object's fields, the vessel's controls and the position *)
(* of the one thread of control inside step / reset are the state.  Every  *)
(* telemetry stream read (self.altitude(), self.pitch(), ...) returns the  *)
(* simulator's value at that instant; the simulator runs concurrently, so  *)
(* each read is an input drawn from the harness's set of readings.  The    *)
(* simulated clock ut is the one reading that is kept as state, because it *)
(* only moves forward.                                                     *)
(*                                                                         *)
(* Numbers: altitudes in units of 1/Scale metre (metres but for the        *)
(* "observe" harness), angles in degrees, ut in tenths of a second.        *)
(* Fractions are kept exact as <<numerator, denominator>>.                 *)
(***************************************************************************)
EXTENDS Integers, Sequences, FiniteSets

VARIABLES
    harness,       \* which caller / telemetry source drives the environment
    pc,            \* position of the thread of control
    max_alt,       \* self.max_alt
    altitude_max,  \* self.altitude_max
    counter,       \* self.counter
    prev_pitch,    \* self.prev_pitch
    ctl,           \* self.vessel.control: pitch, yaw, roll, throttle, sas, rcs
    warp,          \* conn.space_center.physics_warp_factor
    ut,            \* conn.space_center.ut, the simulated clock
    action,        \* step's parameter
    start_act,     \* step's local start_act
    state,         \* step's / reset's local state (the observation)
    reward,        \* step's local reward
    done,          \* step's local done
    ret,           \* what the last call returned to its caller
    rd,            \* the readings taken by the call in progress
    stagings,      \* activate_next_stage() invocations of the call in progress
    entry,         \* counter, altitude_max and controls when the call was made
    completed,     \* step calls returned since the last reset or terminal step
    phase          \* lifecycle of spec section 4.1, as the caller sees it

vars == <<harness, pc, max_alt, altitude_max, counter, prev_pitch, ctl, warp, ut,
          action, start_act, state, reward, done, ret, rd, stagings, entry,
          completed, phase>>

-----------------------------------------------------------------------------
(* Bounds of the model and constants of the program *)

\* the simulated clock stops advancing at MaxUt tenths of a second
MaxUt == 6

\* def __init__(self, conn, max_alt=45000)
DefaultMaxAlt == 45000

\* while self.ut() - start_act <= 0.1, in tenths of a second
Quantum == 1

\* difference(self, turn_start_altitude=250, turn_end_altitude=45000)
TurnStartAltitude == 250
TurnEndAltitude == 45000

\* if deviation < 10
DeviationLimit == 10

\* self.prev_pitch = 90
LaunchPitch == 90

Flying == "VesselSituation.flying"

\* an ascent is abandoned after MaxAscentSteps steps
MaxAscentSteps == 50

\* the lowered ceiling of the "ceiling" harness, in metres
LowMaxAlt == 20000

\* the highest ceiling of the "observe" harness, in half metres
MaxObsAlt == 3

\* The harnesses: "controls" drives every action value against a steady
\* telemetry source, "telemetry" drives action 0 against a source whose
\* readings change between any two reads, "ascent" resets once and then
\* steps with action 0 until done against a source whose altitude climbs
\* 1000 a step (500 per tenth of a second of ut) with pitch 90 and crew 1,
\* "ceiling" is built with max_alt = LowMaxAlt and steps with action 0,
\* "observe" is built with a ceiling of a few half metres and only resets.
Harnesses == {"controls", "telemetry", "ascent", "ceiling", "observe"}

\* altitude units per metre
Scale == IF harness = "observe" THEN 2 ELSE 1

\* the max_alt the environment is constructed with
MaxAlts ==
    CASE harness = "ceiling" -> {LowMaxAlt}
      [] harness = "observe" -> 1 .. MaxObsAlt
      [] OTHER -> {DefaultMaxAlt}

Actions == IF harness = "controls" THEN -1 .. 9 ELSE {0}

AscentAltitude == 500 * ut

Altitudes ==
    CASE harness = "controls" -> {250, 45000}
      [] harness = "telemetry" -> {0, 20000, 45000}
      [] harness = "ascent" -> {AscentAltitude}
      [] harness = "ceiling" -> {250, LowMaxAlt}
      [] harness = "observe" -> 0 .. MaxObsAlt

Pitches == IF harness \in {"telemetry", "ceiling"} THEN {0, 90} ELSE {90}

Headings == IF harness = "controls" THEN {0, 90} ELSE {90}

Crews == IF harness = "telemetry" THEN {0, 1} ELSE {1}

Situations ==
    IF harness = "telemetry" THEN {Flying, "VesselSituation.pre_launch"}
    ELSE {Flying}

Axis == {-1, 0, 1}

Throttles == {0, 1}

NoReadings ==
    [obsAlt |-> -1, obsPitch |-> -1, rewSit |-> "", rewAlt |-> -1, rewPitch |-> -1,
     endAlt |-> -1, endCrew |-> -1, obsStagings |-> -1, load |-> ""]

NoControls ==
    [pitch |-> 0, yaw |-> 0, roll |-> 0, throttle |-> 0, sas |-> FALSE, rcs |-> FALSE]

NoEntry == [counter |-> 0, altitude_max |-> 0, ctl |-> NoControls]

-----------------------------------------------------------------------------
(* The pure parts of GameEnv *)

Abs(x) == IF x < 0 THEN -x ELSE x

\* math.sin(math.radians(h)) and math.cos(math.radians(h)) at the quadrant
\* headings (cos(radians(90)) is 6.1e-17 in floating point, 0 here)
Sin(h) == CASE h = 0 -> 0 [] h = 90 -> 1 [] h = 180 -> 0 [] h = 270 -> -1

Cos(h) == CASE h = 0 -> 1 [] h = 90 -> 0 [] h = 180 -> -1 [] h = 270 -> 0

\* the first component without the division by 1.2
NormalizedAltitude_Undivided(alt, ma) == <<5 * alt + Scale, 5 * ma>>

\* ((altitude + 0.2) / max_alt) / 1.2 = (5*altitude + 1) / (6*max_alt), with
\* altitude and max_alt in metres
NormalizedAltitude(alt, ma) == <<5 * alt + Scale, 6 * ma>>

\* get_state, from its five readings in the order it takes them
get_state(alt, h1, p1, h2, p2, ma) ==
    <<NormalizedAltitude(alt, ma),
      <<Sin(h1) * (90 - p1), 90>>,
      <<Cos(h2) * (90 - p2), 90>>>>

\* a step that keeps the axes of the step before
ResetAxes_Kept(c) == c

\* a per-step reset that takes the throttle with the axes
ResetAxes_AndThrottle(c) == [c EXCEPT !.pitch = 0, !.yaw = 0, !.roll = 0, !.throttle = 0]

\* step's three assignments before choose_action
ResetAxes(c) == [c EXCEPT !.pitch = 0, !.yaw = 0, !.roll = 0]

\* choose_action with an else branch that cuts the throttle
choose_action_ElseCut(c, a) ==
    CASE a = 0 -> c
      [] a = 1 -> [c EXCEPT !.pitch = -1]
      [] a = 2 -> [c EXCEPT !.pitch = 1]
      [] a = 3 -> [c EXCEPT !.roll = -1]
      [] a = 4 -> [c EXCEPT !.roll = 1]
      [] a = 5 -> [c EXCEPT !.yaw = -1]
      [] a = 6 -> [c EXCEPT !.yaw = 1]
      [] a = 7 -> [c EXCEPT !.throttle = 0]
      [] a = 8 -> [c EXCEPT !.throttle = 1]
      [] OTHER -> [c EXCEPT !.throttle = 0]

choose_action(c, a) ==
    CASE a = 0 -> c
      [] a = 1 -> [c EXCEPT !.pitch = -1]
      [] a = 2 -> [c EXCEPT !.pitch = 1]
      [] a = 3 -> [c EXCEPT !.roll = -1]
      [] a = 4 -> [c EXCEPT !.roll = 1]
      [] a = 5 -> [c EXCEPT !.yaw = -1]
      [] a = 6 -> [c EXCEPT !.yaw = 1]
      [] a = 7 -> [c EXCEPT !.throttle = 0]
      [] a = 8 -> [c EXCEPT !.throttle = 1]
      [] OTHER -> c

\* the wait loop with its comparison turned round
WaitCondition_Reversed(now, start) == now - start >= Quantum

\* the wait loop with a strict comparison
WaitCondition_Strict(now, start) == now - start < Quantum

\* the wait loop's test: self.ut() - start_act <= 0.1
WaitCondition(now, start) == now - start <= Quantum

\* difference: deviation = |90 - fractal * 90 - pitch| with
\* fractal = (alt - start) / (end - start); the value is returned as the
\* numerator over the denominator (end - start)
DifferenceDen == (TurnEndAltitude - TurnStartAltitude) * Scale

difference(alt, pitch) ==
    Abs(90 * DifferenceDen - (alt - TurnStartAltitude * Scale) * 90
        - pitch * DifferenceDen)

\* turn_reward, from the situation and the readings difference takes
turn_reward(sit, alt, pitch) ==
    IF sit = Flying
    THEN IF difference(alt, pitch) < DeviationLimit * DifferenceDen THEN 1 ELSE -1
    ELSE 0

\* epoch_ending with an exclusive altitude test
epoch_ending_Exclusive(alt, crew, rew, dn, ma) ==
    IF alt > ma THEN <<1, TRUE>>
    ELSE IF crew = 0 THEN <<-1, TRUE>>
    ELSE <<-1, dn>>

\* epoch_ending with an else branch that keeps the reward passed in
epoch_ending_KeepsReward(alt, crew, rew, dn, ma) ==
    IF alt >= ma THEN <<1, TRUE>>
    ELSE IF crew = 0 THEN <<-1, TRUE>>
    ELSE <<rew, dn>>

\* epoch_ending(reward, done), from the altitude it reads and the crew count
\* it reads when the altitude test fails
epoch_ending(alt, crew, rew, dn, ma) ==
    IF alt >= ma THEN <<1, TRUE>>
    ELSE IF crew = 0 THEN <<-1, TRUE>>
    ELSE <<-1, dn>>

\* the count without the reset of a terminal step
CountStep_NoZero(c, dn) == c + 1

\* the count behind a lifecycle guard
CountStep_Guarded(c, dn) ==
    IF phase \in {"UNINITIALIZED", "TERMINAL"} THEN c
    ELSE IF dn THEN 0 ELSE c + 1

\* self.counter += 1; if done: self.counter = 0
CountStep(c, dn) == IF dn THEN 0 ELSE c + 1

\* if self.altitude() > self.altitude_max: self.altitude_max = self.altitude()
UpdateAltitudeMax(am, tested, stored) == IF tested > am THEN stored ELSE am

\* pre_launch_setup without the two assist writes
DisableAssist_Skipped(c) == c

\* pre_launch_setup's assignments to the vessel's controls
DisableAssist(c) == [c EXCEPT !.sas = FALSE, !.rcs = FALSE]

\* pre_launch_setup without self.counter = 0
pre_launch_setup_KeepsCounter(am, c, pp) == <<0, c, LaunchPitch>>

\* pre_launch_setup's assignments to self: <<altitude_max, counter, prev_pitch>>
pre_launch_setup(am, c, pp) == <<0, 0, LaunchPitch>>

\* activate_engine's assignment to the vessel's controls
activate_engine(c, throttle) == [c EXCEPT !.throttle = throttle]

-----------------------------------------------------------------------------
(* Construction *)

\* __init__: set_telemetry, pre_launch_setup, self.max_alt = max_alt.  The
\* vessel's axes and throttle are whatever the session left them at.
Init ==
    /\ harness \in Harnesses
    /\ pc = "idle"
    /\ max_alt \in MaxAlts
    /\ altitude_max = pre_launch_setup(0, 0, 0)[1]
    /\ counter = pre_launch_setup(0, 0, 0)[2]
    /\ prev_pitch = pre_launch_setup(0, 0, 0)[3]
    /\ ctl \in {DisableAssist([pitch |-> p, yaw |-> y, roll |-> r, throttle |-> t,
                               sas |-> TRUE, rcs |-> TRUE]) :
                    p \in (IF harness = "controls" THEN Axis ELSE {0}),
                    y \in (IF harness = "controls" THEN Axis ELSE {0}),
                    r \in (IF harness = "controls" THEN Axis ELSE {0}),
                    t \in (IF harness = "controls" THEN Throttles ELSE {0})}
    /\ warp = 0
    /\ ut = 0
    /\ action = 0
    /\ start_act = -1
    /\ state = <<>>
    /\ reward = 0
    /\ done = FALSE
    /\ ret = <<>>
    /\ rd = NoReadings
    /\ stagings = 0
    /\ entry = NoEntry
    /\ completed = 0
    /\ phase = "UNINITIALIZED"

-----------------------------------------------------------------------------
(* step(action) *)

\* The simulator advances the clock.  ut is read only by step, when it takes
\* start_act and in its wait loop, so only the advance seen there matters.
Tick ==
    /\ pc = "s_wait"
    /\ IF harness = "ascent" THEN ut - start_act <= Quantum ELSE ut < MaxUt
    /\ ut' = ut + 1
    /\ UNCHANGED <<harness, pc, max_alt, altitude_max, counter, prev_pitch, ctl, warp,
                   action, start_act, state, reward, done, ret, rd, stagings, entry,
                   completed, phase>>

\* done = False; start_act = self.ut()
StepCall(a) ==
    /\ pc = "idle"
    /\ harness = "ascent" => (phase \in {"READY", "STEPPING"} /\ counter < MaxAscentSteps)
    /\ harness # "observe"
    /\ pc' = "s_zero"
    /\ action' = a
    /\ done' = FALSE
    /\ start_act' = ut
    /\ ret' = <<>>
    /\ rd' = NoReadings
    /\ stagings' = 0
    /\ entry' = [counter |-> counter, altitude_max |-> altitude_max, ctl |-> ctl]
    /\ UNCHANGED <<harness, max_alt, altitude_max, counter, prev_pitch, ctl, warp, ut,
                   state, reward, completed, phase>>

\* self.vessel.control.pitch = 0; ...yaw = 0; ...roll = 0
StepResetAxes ==
    /\ pc = "s_zero"
    /\ pc' = "s_choose"
    /\ ctl' = ResetAxes(ctl)
    /\ UNCHANGED <<harness, max_alt, altitude_max, counter, prev_pitch, warp, ut,
                   action, start_act, state, reward, done, ret, rd, stagings, entry,
                   completed, phase>>

\* self.choose_action(action)
StepChooseAction ==
    /\ pc = "s_choose"
    /\ pc' = "s_wait"
    /\ ctl' = choose_action(ctl, action)
    /\ UNCHANGED <<harness, max_alt, altitude_max, counter, prev_pitch, warp, ut,
                   action, start_act, state, reward, done, ret, rd, stagings, entry,
                   completed, phase>>

\* while self.ut() - start_act <= 0.1: continue
StepSpin ==
    /\ pc = "s_wait"
    /\ WaitCondition(ut, start_act)
    /\ UNCHANGED vars

StepWaitOver ==
    /\ pc = "s_wait"
    /\ ~WaitCondition(ut, start_act)
    /\ pc' = "s_state"
    /\ UNCHANGED <<harness, max_alt, altitude_max, counter, prev_pitch, ctl, warp, ut,
                   action, start_act, state, reward, done, ret, rd, stagings, entry,
                   completed, phase>>

\* state = self.get_state()
StepGetState ==
    /\ pc = "s_state"
    /\ pc' = "s_reward"
    /\ \E alt \in Altitudes, h1 \in Headings, p1 \in Pitches, h2 \in Headings,
          p2 \in Pitches :
          /\ state' = get_state(alt, h1, p1, h2, p2, max_alt)
          /\ rd' = [rd EXCEPT !.obsAlt = alt, !.obsPitch = p1]
    /\ UNCHANGED <<harness, max_alt, altitude_max, counter, prev_pitch, ctl, warp, ut,
                   action, start_act, reward, done, ret, stagings, entry, completed,
                   phase>>

\* reward = self.turn_reward(): the situation, then (flying) the altitude and
\* the pitch difference reads and the pitch stored in prev_pitch
StepTurnReward ==
    /\ pc = "s_reward"
    /\ pc' = "s_ending"
    /\ \E sit \in Situations, alt \in Altitudes, p \in Pitches, pp \in Pitches :
          /\ reward' = turn_reward(sit, alt, p)
          /\ IF sit = Flying
             THEN /\ prev_pitch' = pp
                  /\ rd' = [rd EXCEPT !.rewSit = sit, !.rewAlt = alt, !.rewPitch = p]
             ELSE /\ prev_pitch' = prev_pitch
                  /\ rd' = [rd EXCEPT !.rewSit = sit]
    /\ UNCHANGED <<harness, max_alt, altitude_max, counter, ctl, warp, ut, action,
                   start_act, state, done, ret, stagings, entry, completed, phase>>

\* reward, done = self.epoch_ending(reward, done): crew is the crew count the
\* simulator holds at this check, read by the code when the altitude is short
StepEpochEnding ==
    /\ pc = "s_ending"
    /\ pc' = "s_count"
    /\ \E alt \in Altitudes, crew \in Crews :
          /\ reward' = epoch_ending(alt, crew, reward, done, max_alt)[1]
          /\ done' = epoch_ending(alt, crew, reward, done, max_alt)[2]
          /\ rd' = [rd EXCEPT !.endAlt = alt, !.endCrew = crew]
    /\ UNCHANGED <<harness, max_alt, altitude_max, counter, prev_pitch, ctl, warp, ut,
                   action, start_act, state, ret, stagings, entry, completed, phase>>

\* self.counter += 1; if done: self.counter = 0
StepCount ==
    /\ pc = "s_count"
    /\ pc' = "s_altmax"
    /\ counter' = CountStep(counter, done)
    /\ UNCHANGED <<harness, max_alt, altitude_max, prev_pitch, ctl, warp, ut, action,
                   start_act, state, reward, done, ret, rd, stagings, entry, completed,
                   phase>>

\* if self.altitude() > self.altitude_max: self.altitude_max = self.altitude()
StepAltitudeMax ==
    /\ pc = "s_altmax"
    /\ pc' = "s_ret"
    /\ \E tested \in Altitudes, stored \in Altitudes :
          altitude_max' = UpdateAltitudeMax(altitude_max, tested, stored)
    /\ UNCHANGED <<harness, max_alt, counter, prev_pitch, ctl, warp, ut, action,
                   start_act, state, reward, done, ret, rd, stagings, entry, completed,
                   phase>>

\* return state, reward, done, {}
StepReturn ==
    /\ pc = "s_ret"
    /\ pc' = "idle"
    /\ ret' = <<[kind |-> "step", state |-> state, reward |-> reward, done |-> done]>>
    /\ phase' = IF done THEN "TERMINAL" ELSE "STEPPING"
    /\ completed' = IF done THEN 0 ELSE completed + 1
    /\ action' = 0
    /\ start_act' = -1
    /\ state' = <<>>
    /\ reward' = 0
    /\ done' = FALSE
    /\ rd' = NoReadings
    /\ entry' = NoEntry
    /\ UNCHANGED <<harness, max_alt, altitude_max, counter, prev_pitch, ctl, warp, ut,
                   stagings>>

Step ==
    \/ \E a \in Actions : StepCall(a)
    \/ StepResetAxes
    \/ StepChooseAction
    \/ StepSpin
    \/ StepWaitOver
    \/ StepGetState
    \/ StepTurnReward
    \/ StepEpochEnding
    \/ StepCount
    \/ StepAltitudeMax
    \/ StepReturn

-----------------------------------------------------------------------------
(* reset(conn) *)

\* What loading the quick save leaves in the vessel's controls: the axes are
\* released, throttle and the assist flags are the saved ones.
SavedControls ==
    IF harness = "controls"
    THEN {[pitch |-> 0, yaw |-> 0, roll |-> 0, throttle |-> t, sas |-> s, rcs |-> r] :
              t \in Throttles, s \in BOOLEAN, r \in BOOLEAN}
    ELSE {NoControls}

\* self.altitude_max = 0; quick_save = "revivekerbals"
ResetCall ==
    /\ pc = "idle"
    /\ harness = "ascent" => phase = "UNINITIALIZED"
    /\ pc' = "r_load"
    /\ altitude_max' = 0
    /\ ret' = <<>>
    /\ rd' = NoReadings
    /\ stagings' = 0
    /\ entry' = [counter |-> counter, altitude_max |-> altitude_max, ctl |-> ctl]
    /\ UNCHANGED <<harness, max_alt, counter, prev_pitch, ctl, warp, ut, action,
                   start_act, state, reward, done, completed, phase>>

\* self.conn.space_center.load(quick_save) succeeds
ResetLoad ==
    /\ pc = "r_load"
    /\ pc' = "r_setup"
    /\ ctl' \in SavedControls
    /\ warp' \in {0, 1}
    /\ rd' = [rd EXCEPT !.load = "ok"]
    /\ UNCHANGED <<harness, max_alt, altitude_max, counter, prev_pitch, ut, action,
                   start_act, state, reward, done, ret, stagings, entry, completed,
                   phase>>

\* a handler that prints the error and carries on
ResetLoadFails_Swallowed ==
    /\ pc = "r_load"
    /\ pc' = "r_setup"
    /\ rd' = [rd EXCEPT !.load = "failed"]
    /\ UNCHANGED <<harness, max_alt, altitude_max, counter, prev_pitch, ctl, warp, ut,
                   action, start_act, state, reward, done, ret, stagings, entry,
                   completed, phase>>

\* load raises: except Exception: print(...); exit(...)
ResetLoadFails ==
    /\ pc = "r_load"
    /\ pc' = "exited"
    /\ rd' = [rd EXCEPT !.load = "failed"]
    /\ UNCHANGED <<harness, max_alt, altitude_max, counter, prev_pitch, ctl, warp, ut,
                   action, start_act, state, reward, done, ret, stagings, entry,
                   completed, phase>>

\* time.sleep(3); self.set_telemetry(conn); self.pre_launch_setup();
\* self.conn.space_center.physics_warp_factor = 0
ResetSetup ==
    /\ pc = "r_setup"
    /\ pc' = "r_state"
    /\ ctl' = DisableAssist(ctl)
    /\ altitude_max' = pre_launch_setup(altitude_max, counter, prev_pitch)[1]
    /\ counter' = pre_launch_setup(altitude_max, counter, prev_pitch)[2]
    /\ prev_pitch' = pre_launch_setup(altitude_max, counter, prev_pitch)[3]
    /\ warp' = 0
    /\ UNCHANGED <<harness, max_alt, ut, action, start_act, state, reward, done, ret,
                   rd, stagings, entry, completed, phase>>

\* state = self.get_state()
ResetGetState ==
    /\ pc = "r_state"
    /\ pc' = "r_engine"
    /\ \E alt \in Altitudes, h1 \in Headings, p1 \in Pitches, h2 \in Headings,
          p2 \in Pitches :
          /\ state' = get_state(alt, h1, p1, h2, p2, max_alt)
          /\ rd' = [rd EXCEPT !.obsAlt = alt, !.obsPitch = p1,
                              !.obsStagings = stagings]
    /\ UNCHANGED <<harness, max_alt, altitude_max, counter, prev_pitch, ctl, warp, ut,
                   action, start_act, reward, done, ret, stagings, entry, completed,
                   phase>>

\* self.activate_engine(): throttle = 1.0; activate_next_stage(); time.sleep(2)
ResetActivateEngine ==
    /\ pc = "r_engine"
    /\ pc' = "r_ret"
    /\ ctl' = activate_engine(ctl, 1)
    /\ stagings' = stagings + 1
    /\ UNCHANGED <<harness, max_alt, altitude_max, counter, prev_pitch, warp, ut,
                   action, start_act, state, reward, done, ret, rd, entry, completed,
                   phase>>

\* return state
ResetReturn ==
    /\ pc = "r_ret"
    /\ pc' = "idle"
    /\ ret' = <<[kind |-> "reset", state |-> state]>>
    /\ phase' = "READY"
    /\ completed' = 0
    /\ state' = <<>>
    /\ rd' = NoReadings
    /\ entry' = NoEntry
    /\ UNCHANGED <<harness, max_alt, altitude_max, counter, prev_pitch, ctl, warp, ut,
                   action, start_act, reward, done, stagings>>

Reset ==
    \/ ResetCall
    \/ ResetLoad
    \/ ResetLoadFails
    \/ ResetSetup
    \/ ResetGetState
    \/ ResetActivateEngine
    \/ ResetReturn

Next == Tick \/ Step \/ Reset

Spec == Init /\ [][Next]_vars

\* The steps of a step call once it has been made: the one thread of control
\* keeps running.
StepRuns ==
    \/ StepResetAxes
    \/ StepChooseAction
    \/ StepWaitOver
    \/ StepGetState
    \/ StepTurnReward
    \/ StepEpochEnding
    \/ StepCount
    \/ StepAltitudeMax
    \/ StepReturn

\* The thread keeps running and the simulated clock keeps advancing (up to
\* MaxUt, where it stalls).
FairSpec == Spec /\ WF_vars(StepRuns) /\ WF_vars(Tick)

-----------------------------------------------------------------------------
(* Properties *)

\* positions inside step, and those after choose_action has run
StepPcs ==
    {"s_zero", "s_choose", "s_wait", "s_state", "s_reward", "s_ending", "s_count",
     "s_altmax", "s_ret"}

AfterChoose == StepPcs \ {"s_zero", "s_choose"}

\* the gravity-turn reward of the readings turn_reward took in this step
GravityTurnReward ==
    IF rd.rewSit # Flying THEN 0
    ELSE IF Abs(90 * (TurnEndAltitude - TurnStartAltitude) * Scale
                - 90 * (rd.rewAlt - TurnStartAltitude * Scale)
                - rd.rewPitch * (TurnEndAltitude - TurnStartAltitude) * Scale)
            < 10 * (TurnEndAltitude - TurnStartAltitude) * Scale
         THEN 1 ELSE -1

\* C1: when the crew count is 0 and the altitude is at or above max_alt at
\* the same termination check, the outcome is the crew-loss one: done with
\* reward -1.
C1_CrewLossFirst ==
    (pc = "s_count" /\ rd.endCrew = 0 /\ rd.endAlt >= max_alt)
        => (done /\ reward = -1)

\* C2: the altitude and pitch behind the reward and the termination check of
\* a step are the ones get_state sampled for the step's observation.
C2_NoResampling ==
    pc = "s_ret" =>
        /\ rd.endAlt = rd.obsAlt
        /\ rd.rewSit = Flying => (rd.rewAlt = rd.obsAlt /\ rd.rewPitch = rd.obsPitch)

\* C3: outside the call of reset, altitude_max never decreases.
C3_AltitudeMaxMonotone ==
    [][pc' # "r_load" => altitude_max' >= altitude_max]_vars

\* C4: a step that is not terminal returns the gravity-turn reward: 0 when
\* not flying, +1 when flying with a deviation under 10, -1 otherwise.
C4_NonTerminalRewardIsTurnReward ==
    (pc = "s_ret" /\ ~done) => reward = GravityTurnReward

\* C5 as claimed: a step called when UNINITIALIZED or TERMINAL changes neither
\* the controls nor the counter and does not reach its return.
C5_StepRefusedOutsideEpisode ==
    (pc \in StepPcs /\ phase \in {"UNINITIALIZED", "TERMINAL"})
        => (ctl = entry.ctl /\ counter = entry.counter /\ pc # "s_ret")

\* C5 as amended: a step called when UNINITIALIZED or TERMINAL is carried out
\* like any other: at its return the axes have been reset, the counter has
\* been counted from its value at the call, and an observation, a reward and
\* a done flag are returned.
C5_StepCarriedOutInEveryPhase ==
    (pc = "s_ret" /\ phase \in {"UNINITIALIZED", "TERMINAL"}) =>
        /\ ctl.pitch = (IF action = 1 THEN -1 ELSE IF action = 2 THEN 1 ELSE 0)
        /\ ctl.roll = (IF action = 3 THEN -1 ELSE IF action = 4 THEN 1 ELSE 0)
        /\ ctl.yaw = (IF action = 5 THEN -1 ELSE IF action = 6 THEN 1 ELSE 0)
        /\ ctl.throttle = (IF action = 7 THEN 0 ELSE IF action = 8 THEN 1
                           ELSE entry.ctl.throttle)
        /\ counter = IF done THEN 0 ELSE entry.counter + 1
        /\ Len(state) = 3
        /\ reward \in {-1, 1}
        /\ done \in BOOLEAN

C5_Witness ==
    /\ pc = "s_ret"
    /\ phase = "TERMINAL"
    /\ ~done
    /\ counter = entry.counter + 1
    /\ ctl # entry.ctl

\* C6: counter is never negative; between calls it is the number of steps
\* returned since the last reset or terminal step; a step that is not
\* terminal raises it by one and a terminal step leaves it at 0.
C6_CounterCountsSteps ==
    /\ counter >= 0
    /\ pc = "idle" => counter = completed
    /\ pc = "s_ret" => counter = IF done THEN 0 ELSE entry.counter + 1

C6_Witness == pc = "idle" /\ phase = "STEPPING" /\ counter >= 2

\* C7: done is returned true exactly when, at the termination check, the crew
\* count is 0 or the altitude is at least max_alt.
C7_DoneIff ==
    pc = "s_ret" => (done <=> (rd.endCrew = 0 \/ rd.endAlt >= max_alt))

C7_Witness == pc = "s_ret" /\ done /\ rd.endAlt = max_alt /\ rd.endCrew # 0

\* C8: when reset returns, counter and altitude_max are both 0.
C8_ResetZeroes ==
    (pc = "r_ret" \/ (pc = "idle" /\ ret # <<>> /\ ret[1].kind = "reset"))
        => (counter = 0 /\ altitude_max = 0)

C8_Witness == pc = "r_ret" /\ entry.counter > 0 /\ entry.altitude_max > 0

\* C9: once step(a) has dispatched its action, and until it returns, each
\* axis is 0 but for the one axis actions 1..6 set to -1 or +1.
C9_AbsoluteImpulse ==
    pc \in AfterChoose =>
        /\ ctl.pitch = (IF action = 1 THEN -1 ELSE IF action = 2 THEN 1 ELSE 0)
        /\ ctl.roll = (IF action = 3 THEN -1 ELSE IF action = 4 THEN 1 ELSE 0)
        /\ ctl.yaw = (IF action = 5 THEN -1 ELSE IF action = 6 THEN 1 ELSE 0)

C9_Witness ==
    /\ pc = "s_ret"
    /\ completed >= 1
    /\ entry.ctl.pitch = 1
    /\ action = 3
    /\ ctl.pitch = 0
    /\ ctl.roll = -1

\* C11: the observation, the reward and the termination of a step are read,
\* and the step returns, only once the clock has advanced by at least 0.1
\* beyond start_act.
C11_ReadAfterQuantum ==
    pc \in {"s_state", "s_reward", "s_ending", "s_count", "s_altmax", "s_ret"}
        => ut - start_act >= Quantum

C11_Witness == pc = "s_ret" /\ rd.obsAlt >= 0 /\ rd.endAlt >= 0 /\ ut - start_act > Quantum

\* C12: in the ascent (reset at altitude 0, pitch 90, crew 1, max_alt 45000,
\* action 0, altitude 1000 higher each step) every step before the altitude
\* reaches 45000 returns done = false, and the first step whose altitude is
\* at least 45000, the 45th, returns done = true with reward +1.
C12_AscentEndsAtCeiling ==
    (harness = "ascent" /\ pc = "s_ret") =>
        /\ rd.endAlt = 1000 * (entry.counter + 1)
        /\ done <=> rd.endAlt >= 45000
        /\ done => (reward = 1 /\ entry.counter + 1 = 45)

C12_Witness ==
    /\ harness = "ascent"
    /\ pc = "s_ret"
    /\ max_alt = 45000
    /\ rd.endAlt = 45000
    /\ entry.counter = 44
    /\ done
    /\ reward = 1

\* C13: the observation reset returns was sampled after the engine
\* activation (throttle full, next stage, settling delay) of that reset.
C13_ObservationAfterIgnition ==
    pc = "r_ret" => rd.obsStagings >= 1

\* C14: once the load of the saved game has failed, the process has exited:
\* reset has returned nothing, no command has reached the vessel since the
\* call, no stage was activated, and nothing more can happen.
C14_LoadFailureIsFatal ==
    rd.load = "failed" =>
        /\ pc = "exited"
        /\ ret = <<>>
        /\ state = <<>>
        /\ ctl = entry.ctl
        /\ stagings = 0
        /\ ~ENABLED Next

C14_Witness ==
    /\ rd.load = "failed"
    /\ pc = "exited"
    /\ phase = "STEPPING"
    /\ entry.ctl.throttle = 1

\* C15: when reset returns, SAS and RCS are off, throttle is full and the
\* next stage has been activated exactly once in that reset.
C15_ResetControls ==
    pc = "r_ret" =>
        /\ ctl.sas = FALSE
        /\ ctl.rcs = FALSE
        /\ ctl.throttle = 1
        /\ stagings = 1

C15_Witness ==
    /\ pc = "r_ret"
    /\ phase = "STEPPING"
    /\ entry.ctl.throttle = 0
    /\ entry.ctl.pitch = 1
    /\ ctl.throttle = 1

\* C16: the ideal pitch of the gravity turn is 0 at altitude max_alt: when
\* turn_reward reads altitude max_alt and pitch 0 in flight, the deviation
\* is 0 and the turn reward +1, whatever max_alt was configured.
C16_TurnEndsAtMaxAlt ==
    (pc = "s_ending" /\ rd.rewSit = Flying /\ rd.rewAlt = max_alt /\ rd.rewPitch = 0)
        => (difference(rd.rewAlt, rd.rewPitch) = 0 /\ reward = 1)

\* comparison of fractions with positive denominators, cross-multiplied
\* after the denominators' common factor is taken out
RECURSIVE Gcd(_, _)
Gcd(a, b) == IF b = 0 THEN a ELSE Gcd(b, a % b)

RatLess(x, y) ==
    x[1] * (y[2] \div Gcd(x[2], y[2])) < y[1] * (x[2] \div Gcd(x[2], y[2]))

RatLeq(x, y) ==
    x[1] * (y[2] \div Gcd(x[2], y[2])) <= y[1] * (x[2] \div Gcd(x[2], y[2]))

RatEq(x, y) ==
    x[1] * (y[2] \div Gcd(x[2], y[2])) = y[1] * (x[2] \div Gcd(x[2], y[2]))

\* altitudes between 0 and max_alt: the harness's readings, both ends and
\* their neighbours (every altitude of the range when the ceiling is low)
AltitudeSamples ==
    {a \in Altitudes \cup {0, 1, max_alt - 1, max_alt} : 0 <= a /\ a <= max_alt}

\* over 0 <= a <= max_alt the first observation component is strictly
\* increasing, 0.2 / (1.2 * max_alt) at 0, (max_alt + 0.2) / (1.2 * max_alt)
\* at max_alt, and inside [0, 1]; so is the component of an observation
\* taken at such an altitude
NormalizedAltitudeInBounds ==
    /\ \A a, b \in AltitudeSamples :
           a < b => RatLess(NormalizedAltitude(a, max_alt), NormalizedAltitude(b, max_alt))
    /\ RatEq(NormalizedAltitude(0, max_alt), <<2 * Scale, 12 * max_alt>>)
    /\ RatEq(NormalizedAltitude(max_alt, max_alt),
             <<10 * max_alt + 2 * Scale, 12 * max_alt>>)
    /\ \A a \in AltitudeSamples :
           /\ RatLeq(<<0, 1>>, NormalizedAltitude(a, max_alt))
           /\ RatLeq(NormalizedAltitude(a, max_alt), <<1, 1>>)
    /\ (Len(state) = 3 /\ rd.obsAlt \in AltitudeSamples) =>
           /\ RatLeq(<<0, 1>>, state[1])
           /\ RatLeq(state[1], <<1, 1>>)
           /\ RatEq(state[1], <<10 * rd.obsAlt + 2 * Scale, 12 * max_alt>>)

\* get_state has just built an observation
Observed == pc \in {"s_reward", "r_engine"}

C18_RewardIsEpochEndings ==
    pc \in {"s_count", "s_altmax", "s_ret"} =>
        /\ reward \in {-1, 1}
        /\ reward = 1 <=> rd.endAlt >= max_alt
        /\ ~done => reward = -1
        /\ (done /\ rd.endAlt < max_alt) => (rd.endCrew = 0 /\ reward = -1)

C18_Witness ==
    /\ pc = "s_ret"
    /\ ~done
    /\ reward = -1
    /\ GravityTurnReward = 1

\* the clock can still pass start_act + 0.1
ClockCanPass == harness = "ascent" \/ start_act + Quantum < MaxUt

\* C19: a step whose clock goes on to read more than 0.1 above start_act
\* returns; while the clock reads at most 0.1 above start_act (stalled, or
\* stopped after exactly 0.1) the step stays in its wait loop and changes no
\* episode state.
C19_StepReturnsIffClockPasses ==
    /\ (pc = "s_wait" /\ ClockCanPass) ~> (pc = "idle")
    /\ [][(pc = "s_wait" /\ ut - start_act <= Quantum) =>
             /\ pc' = "s_wait"
             /\ <<altitude_max, counter, prev_pitch, ctl, state, reward, done, ret>>'
                  = <<altitude_max, counter, prev_pitch, ctl, state, reward, done, ret>>]_vars

C19_Witness ==
    /\ pc = "s_wait"
    /\ harness = "controls"
    /\ ut = MaxUt
    /\ ut - start_act = Quantum
    /\ ret = <<>>

\* the throttle a step leaves behind, from the action and the throttle it found
ThrottleAfter(a, before) == IF a = 7 THEN 0 ELSE IF a = 8 THEN 1 ELSE before

\* C20: within step and between calls the throttle changes only where
\* choose_action runs action 7 (to 0) or action 8 (to 1), so a step returns
\* with the throttle it found unless its action was 7 or 8; reset returns
\* with throttle 1.
C20_ThrottleLatches ==
    /\ [](pc = "s_ret" => ctl.throttle = ThrottleAfter(action, entry.ctl.throttle))
    /\ [](pc = "r_ret" => ctl.throttle = 1)
    /\ [][(pc \in StepPcs \cup {"idle"} /\ pc' \in StepPcs \cup {"idle"}) =>
             ctl'.throttle = (IF pc = "s_choose"
                              THEN ThrottleAfter(action, ctl.throttle)
                              ELSE ctl.throttle)]_vars

C20_Witness ==
    /\ pc = "s_ret"
    /\ action = 1
    /\ completed >= 1
    /\ entry.ctl.throttle = 0
    /\ ctl.throttle = 0
    /\ ctl.pitch = -1

\* C10: choose_action(a) changes no control when a is 0 or outside 1..8.
C10_NoOpActions ==
    [][(pc = "s_choose" /\ pc' = "s_wait" /\ action \notin 1 .. 8) => ctl' = ctl]_vars

C10_Witness == pc = "s_wait" /\ action \notin 0 .. 8 /\ ctl.throttle = 1

====
